---- MODULE Spec2Model ----
(***************************************************************************)
(* Adaptive arithmetic compressor (src/src/main.rs): the probability model *)
(* (Probabilities), the bit buffer and the file layout (Code), and the     *)
(* encoder and decoder loops, one action per step of each loop.            *)
(*                                                                         *)
(* The program computes with u32 and u64 values; TLC's integers are 32-bit *)
(* signed, so every u32/u64 quantity that can exceed 2^31 - 1 is held as a *)
(* natural number in base 2^15, least significant digit first and without  *)
(* high zero digits (zero is <<>>).  The frequency tables (<= 2^30) and    *)
(* the small counters are plain integers.                                  *)
(***************************************************************************)
EXTENDS Integers, Sequences, FiniteSets, TLC

VARIABLES
    input,        \* the bytes handed to Code::encode (d)
    pc,           \* position of the program
    position,     \* encode: number of symbols taken from d so far
    low, high,    \* encode: the interval (u32)
    pending_bits, \* encode: deferred bits (u32)
    prob,         \* encode: its Probabilities
    code,         \* the Code built by encode: data, write_index, read_index, chars
    file,         \* the bytes write_to_file produced
    dcode,        \* the Code read_from_file built, which decode consumes
    d_low, d_high,\* decode: the interval (u32)
    value,        \* decode: the 32-bit window (u32)
    d_prob,       \* decode: its Probabilities
    res,          \* decode: the symbols produced so far
    entropy_of,   \* the counts compute_entropy was given: <<by encode, by decode>>
    past_end,     \* decode: get_bit_and_shift calls answered at the end of the buffer
    seeded,       \* decode: bits read into value by the first loop
    cases,        \* the renormalization cases taken since the last narrowing
    enc_trace,    \* per encoded symbol: the encoder's state before it, the cases taken after it
    enc_tables,   \* the pro tables the encoder has had, in order
    put,          \* the bits add_bit was called with, in order, when it is called alone
    got           \* the bits get_bit_and_shift returned, in order, when it is called alone

vars == <<input, pc, position, low, high, pending_bits, prob, code, file, dcode,
          d_low, d_high, value, d_prob, res, entropy_of, past_end, seeded, cases,
          enc_trace, enc_tables, put, got>>

BitVars == <<put, got>>

----------------------------------------------------------------------------
(* Natural numbers in base 2^15 *)

Base == 2^15

RECURSIVE BN(_)
BN(n) == IF n = 0 THEN <<>> ELSE <<n % Base>> \o BN(n \div Base)

RECURSIVE Strip(_)
Strip(a) ==
    IF a = <<>> THEN a
    ELSE IF a[Len(a)] = 0 THEN Strip(SubSeq(a, 1, Len(a) - 1)) ELSE a

RECURSIVE AddC(_, _, _)
AddC(a, b, c) ==
    IF a = <<>> /\ b = <<>> THEN (IF c = 0 THEN <<>> ELSE <<c>>)
    ELSE IF b = <<>> /\ c = 0 THEN a
    ELSE IF a = <<>> /\ c = 0 THEN b
    ELSE LET x == IF a = <<>> THEN 0 ELSE Head(a)
             y == IF b = <<>> THEN 0 ELSE Head(b)
             s == x + y + c
         IN  <<s % Base>> \o AddC(IF a = <<>> THEN a ELSE Tail(a),
                                  IF b = <<>> THEN b ELSE Tail(b), s \div Base)

BAdd(a, b) == AddC(a, b, 0)

RECURSIVE BCmp(_, _)
\* -1, 0 or 1 as a < b, a = b, a > b
BCmp(a, b) ==
    IF Len(a) # Len(b) THEN (IF Len(a) < Len(b) THEN -1 ELSE 1)
    ELSE IF a = <<>> THEN 0
    ELSE LET n == Len(a)
         IN  IF a[n] # b[n] THEN (IF a[n] < b[n] THEN -1 ELSE 1)
             ELSE BCmp(SubSeq(a, 1, n - 1), SubSeq(b, 1, n - 1))

BLt(a, b) == BCmp(a, b) < 0
BLe(a, b) == BCmp(a, b) <= 0

RECURSIVE SubC(_, _, _)
SubC(a, b, c) ==
    IF a = <<>> THEN <<>>
    ELSE IF b = <<>> /\ c = 0 THEN a
    ELSE LET y == IF b = <<>> THEN 0 ELSE Head(b)
             s == Head(a) - y - c
         IN  <<s % Base>> \o SubC(Tail(a), IF b = <<>> THEN b ELSE Tail(b),
                                  IF s < 0 THEN 1 ELSE 0)

\* a - b for a >= b
BSub(a, b) == Strip(SubC(a, b, 0))

RECURSIVE MulS(_, _, _)
MulS(a, m, c) ==
    IF a = <<>> THEN (IF c = 0 THEN <<>> ELSE <<c>>)
    ELSE LET p == Head(a) * m + c
         IN  <<p % Base>> \o MulS(Tail(a), m, p \div Base)

\* a * m for a digit m
BMulS(a, m) == IF m = 0 THEN <<>> ELSE MulS(a, m, 0)

RECURSIVE BMul(_, _)
BMul(a, b) ==
    IF a = <<>> \/ b = <<>> THEN <<>>
    ELSE LET r == BMul(a, Tail(b))
         IN  BAdd(BMulS(a, Head(b)), IF r = <<>> THEN r ELSE <<0>> \o r)

RECURSIVE DivS(_, _)
\* <<quotient, remainder>> of a by a divisor d < Base
DivS(a, d) ==
    IF a = <<>> THEN <<(<<>>), 0>>
    ELSE LET h   == DivS(Tail(a), d)
             cur == h[2] * Base + Head(a)
             q   == cur \div d
         IN  <<IF h[1] = <<>> /\ q = 0 THEN <<>> ELSE <<q>> \o h[1], cur % d>>

RECURSIVE DivBits(_, _, _, _)
\* one digit of a long division, bit by bit: <<quotient digit, remainder>>
DivBits(r, x, d, k) ==
    IF k = 0 THEN <<0, r>>
    ELSE LET top == (x \div (2^(k - 1))) % 2
             r2  == 2 * r + top
             bit == IF r2 >= d THEN 1 ELSE 0
             h   == DivBits(r2 - bit * d, x, d, k - 1)
         IN  <<bit * 2^(k - 1) + h[1], h[2]>>

RECURSIVE DivL(_, _)
\* <<quotient, remainder>> of a by a divisor d <= 2^30
DivL(a, d) ==
    IF a = <<>> THEN <<(<<>>), 0>>
    ELSE LET h == DivL(Tail(a), d)
             g == DivBits(h[2], Head(a), d, 15)
         IN  <<IF h[1] = <<>> /\ g[1] = 0 THEN <<>> ELSE <<g[1]>> \o h[1], g[2]>>

\* floor(a / d), d an integer in 1 .. 2^30
BDiv(a, d) ==
    IF d < Base THEN DivS(a, d)[1]
    ELSE IF d = Base * Base THEN SubSeq(a, 3, Len(a))
    ELSE DivL(a, d)[1]

\* a mod d, d an integer in 1 .. 2^15 - 1
BMod(a, d) == DivS(a, d)[2]

\* the value of a, for a < 2^31
ToInt(a) ==
    (IF Len(a) >= 1 THEN a[1] ELSE 0) + (IF Len(a) >= 2 THEN a[2] * Base ELSE 0)
      + (IF Len(a) >= 3 THEN a[3] * Base * Base ELSE 0)

RECURSIVE BitAnd(_, _)
BitAnd(x, y) ==
    IF x = 0 \/ y = 0 THEN 0
    ELSE (x % 2) * (y % 2) + 2 * BitAnd(x \div 2, y \div 2)

RECURSIVE BitOr(_, _)
BitOr(x, y) ==
    IF x = 0 THEN y ELSE IF y = 0 THEN x
    ELSE (IF x % 2 = 1 \/ y % 2 = 1 THEN 1 ELSE 0) + 2 * BitOr(x \div 2, y \div 2)

RECURSIVE BAndRaw(_, _)
BAndRaw(a, b) ==
    IF a = <<>> \/ b = <<>> THEN <<>>
    ELSE <<BitAnd(Head(a), Head(b))>> \o BAndRaw(Tail(a), Tail(b))

BAnd(a, b) == Strip(BAndRaw(a, b))

RECURSIVE BOr(_, _)
BOr(a, b) ==
    IF a = <<>> THEN b ELSE IF b = <<>> THEN a
    ELSE <<BitOr(Head(a), Head(b))>> \o BOr(Tail(a), Tail(b))

----------------------------------------------------------------------------
(* u32 values *)

Two30   == <<0, 0, 1>>          \* 0x40000000
Two31   == <<0, 0, 2>>          \* 0x80000000
Three30 == <<0, 0, 3>>          \* 0xC0000000
Two32   == <<0, 0, 4>>
MaxU32  == <<Base - 1, Base - 1, 3>>   \* 0xFFFFFFFF
Mask31  == <<Base - 1, Base - 1, 1>>   \* 0x7FFFFFFF
Top1    == <<1, 0, 2>>                 \* 0x80000001

\* the low 32 bits of a: the cast "as u32", and what a wrapping u32 operation keeps
AsU32(a) ==
    IF Len(a) < 3 THEN a ELSE Strip(<<a[1], a[2], a[3] % 4>>)

\* x << 1 on a u32
Shl1(a) == AsU32(BMulS(a, 2))

\* a - b on u32 values, wrapping
WrapSub(a, b) == IF BLe(b, a) THEN BSub(a, b) ELSE BSub(BAdd(a, Two32), b)

----------------------------------------------------------------------------
(* f64 values: <<m, e>> is m * 2^e with 2^52 <= m < 2^53; zero is <<(<<>>), 0>> *)

RECURSIVE IntBits(_)
IntBits(x) == IF x = 0 THEN 0 ELSE 1 + IntBits(x \div 2)

BitLen(a) == IF a = <<>> THEN 0 ELSE 15 * (Len(a) - 1) + IntBits(a[Len(a)])

RECURSIVE Zeros(_)
Zeros(n) == IF n = 0 THEN <<>> ELSE <<0>> \o Zeros(n - 1)

\* a * 2^k
BShl(a, k) == IF a = <<>> THEN a ELSE Zeros(k \div 15) \o BMulS(a, 2^(k % 15))

\* floor(a / 2^k)
BShr(a, k) ==
    IF k \div 15 >= Len(a) THEN <<>>
    ELSE DivS(SubSeq(a, k \div 15 + 1, Len(a)), 2^(k % 15))[1]

IsOdd(a) == a # <<>> /\ a[1] % 2 = 1

\* the f64 nearest to n * 2^e (ties to even), n > 0
RoundF64(n, e) ==
    LET len == BitLen(n)
    IN  IF len <= 53 THEN <<BShl(n, 53 - len), e - (53 - len)>>
        ELSE LET s    == len - 53
                 q    == BShr(n, s)
                 rem  == BSub(n, BShl(q, s))
                 c    == BCmp(rem, BShl(<<1>>, s - 1))
                 up   == c > 0 \/ (c = 0 /\ IsOdd(q))
                 q2   == IF up THEN BAdd(q, <<1>>) ELSE q
             IN  IF BitLen(q2) = 54 THEN <<BShr(q2, 1), e + s + 1>> ELSE <<q2, e + s>>

\* a as f64 / s as f64, for integers 0 < a, s < 2^31 (both conversions are exact)
F64Quot(a, s) ==
    LET h == IF s < Base THEN DivS(BShl(BN(a), 90), s) ELSE DivL(BShl(BN(a), 90), s)
        n == BAdd(BMulS(h[1], 2), IF h[2] = 0 THEN <<>> ELSE <<1>>)
    IN  RoundF64(n, -91)

\* v as f64 * c, for an integer 0 <= v < 2^31
F64MulInt(v, c) ==
    IF v = 0 \/ c[1] = <<>> THEN <<(<<>>), 0>> ELSE RoundF64(BMul(BN(v), c[1]), c[2])

\* x.floor() as u64
F64Floor(x) ==
    IF x[1] = <<>> THEN <<>>
    ELSE IF x[2] >= 0 THEN BShl(x[1], x[2]) ELSE BShr(x[1], -x[2])

----------------------------------------------------------------------------
(* struct Probabilities *)

PRECISION == 1048576 * 1024
CYCLE == 64

Symbols == 0 .. 255

\* Probabilities::new
ProbNew ==
    [sum   |-> 256,
     pro   |-> [i \in 0 .. 256 |-> i],
     temp  |-> [i \in Symbols |-> 0],
     cycle |-> 0]

RECURSIVE SumRange(_, _, _)
\* f[a] + ... + f[b], a <= b, by halves (the depth of evaluation stays small)
SumRange(f, a, b) ==
    IF a = b THEN f[a]
    ELSE SumRange(f, a, (a + b) \div 2) + SumRange(f, (a + b) \div 2 + 1, b)

\* f[0] + ... + f[n - 1]
SumTo(f, n) == IF n = 0 THEN 0 ELSE SumRange(f, 0, n - 1)

\* ScaledCounts without the "+ 1" of line 61: a symbol never seen gets frequency 0
ScaledCountsNoFloor(temp) ==
    LET sum == SumTo(temp, 256)
        c   == F64Quot(PRECISION - 256, sum)
    IN  [i \in Symbols |-> ToInt(F64Floor(F64MulInt(temp[i], c)))]

\* the vector t of update_probabilities before the deficit is handed out
ScaledCounts(temp) ==
    LET sum == SumTo(temp, 256)
        c   == F64Quot(PRECISION - 256, sum)
    IN  [i \in Symbols |-> ToInt(F64Floor(F64MulInt(temp[i], c))) + 1]

\* PRECISION - all, as the integer it is when the u64 subtraction does not overflow
Deficit(temp) == PRECISION - SumTo(ScaledCounts(temp), 256)

\* update_probabilities panics: the u64 subtraction overflows (or wraps to an index
\* past the vector), t[i] is indexed past 255, or the assertion fails
UpdatePanics(temp) == Deficit(temp) < 0 \/ Deficit(temp) > 256

\* Frequencies with the deficit handed to the last symbols, not the first
FrequenciesLast(temp) ==
    LET t == ScaledCounts(temp)
        deficit == PRECISION - SumTo(t, 256)
    IN  [i \in Symbols |-> IF i >= 256 - deficit THEN t[i] + 1 ELSE t[i]]

\* the vector t after the deficit is handed out
Frequencies(temp) ==
    LET t == ScaledCounts(temp)
        deficit == PRECISION - SumTo(t, 256)
    IN  [i \in Symbols |-> IF i < deficit THEN t[i] + 1 ELSE t[i]]

RECURSIVE Running(_, _, _, _)
\* the running sums acc + t[a], acc + t[a] + t[a + 1], ... up to index b, by halves
Running(t, a, b, acc) ==
    IF a = b THEN <<acc + t[a]>>
    ELSE LET left == Running(t, a, (a + b) \div 2, acc)
         IN  left \o Running(t, (a + b) \div 2 + 1, b, left[Len(left)])

\* update_probabilities starting the counts again from zero
update_probabilities_reset(p) ==
    LET sums == Running(Frequencies(p.temp), 0, 255, 0)
    IN  [p EXCEPT !.pro = [i \in 0 .. 256 |-> IF i = 0 THEN 0 ELSE sums[i]],
                  !.sum = PRECISION,
                  !.temp = [i \in Symbols |-> 0]]

\* Probabilities::update_probabilities
update_probabilities(p) ==
    LET sums == Running(Frequencies(p.temp), 0, 255, 0)
    IN  [p EXCEPT !.pro = [i \in 0 .. 256 |-> IF i = 0 THEN 0 ELSE sums[i]],
                  !.sum = PRECISION]

\* add with "cycle > CYCLE" for the "cycle >= CYCLE" of line 46: the rescale comes one
\* symbol late
addLate(p, to_add) ==
    LET q == [p EXCEPT !.temp[to_add] = @ + 1, !.cycle = @ + 1]
    IN  IF q.cycle > CYCLE THEN update_probabilities([q EXCEPT !.cycle = 0]) ELSE q

\* Probabilities::add
add(p, to_add) ==
    LET q == [p EXCEPT !.temp[to_add] = @ + 1, !.cycle = @ + 1]
    IN  IF q.cycle >= CYCLE THEN update_probabilities([q EXCEPT !.cycle = 0]) ELSE q

\* add panics inside update_probabilities
AddPanics(p, to_add) ==
    /\ p.cycle + 1 >= CYCLE
    /\ UpdatePanics([p.temp EXCEPT ![to_add] = @ + 1])

----------------------------------------------------------------------------
(* struct Code: the bit buffer *)

BIN == <<128, 64, 32, 16, 8, 4, 2, 1>>

\* Code::new (entropy is kept apart, in entropy_of)
CodeNew == [data |-> <<>>, write_index |-> 0, read_index |-> 0, chars |-> <<>>]

\* add_bit filling each byte from its least significant bit
add_bit_lsb(c, b) ==
    LET sector == c.write_index % 8
        block  == c.write_index \div 8
        d1     == IF sector = 0 THEN Append(c.data, 0) ELSE c.data
        d2     == IF b THEN [d1 EXCEPT ![block + 1] = BitOr(@, BIN[8 - sector])] ELSE d1
    IN  [c EXCEPT !.data = d2, !.write_index = @ + 1]

\* Code::add_bit
add_bit(c, b) ==
    LET sector == c.write_index % 8
        block  == c.write_index \div 8
        d1     == IF sector = 0 THEN Append(c.data, 0) ELSE c.data
        d2     == IF b THEN [d1 EXCEPT ![block + 1] = BitOr(@, BIN[sector + 1])] ELSE d1
    IN  [c EXCEPT !.data = d2, !.write_index = @ + 1]

RECURSIVE add_bits(_, _, _)
\* n calls of add_bit(b)
add_bits(c, b, n) == IF n = 0 THEN c ELSE add_bits(add_bit(c, b), b, n - 1)

\* Code::get_bit
get_bit(c, i) == BitAnd(255 - c.data[i \div 8 + 1], BIN[(i % 8) + 1]) = 0

\* get_bit_and_shift answering 1, not 0, at the end of the buffer
NextBitOne(c) ==
    IF c.read_index < Len(c.data) * 8 THEN get_bit(c, c.read_index) ELSE TRUE

\* Code::get_bit_and_shift: the bit returned
NextBit(c) ==
    IF c.read_index < Len(c.data) * 8 THEN get_bit(c, c.read_index) ELSE FALSE

\* get_bit_and_shift advancing read_index outside the test of line 132
ShiftedAlways(c) == [c EXCEPT !.read_index = @ + 1]

\* Code::get_bit_and_shift: the Code afterwards
Shifted(c) ==
    IF c.read_index < Len(c.data) * 8 THEN [c EXCEPT !.read_index = @ + 1] ELSE c

\* get_bit_and_shift finds read_index at the end of the buffer
AtEnd(c) == ~(c.read_index < Len(c.data) * 8)

----------------------------------------------------------------------------
(* the file layout *)

\* write_to_file with the count least significant byte first
write_to_file_le(c) ==
    LET s0 == BMod(c.chars, 256)
        s1 == BMod(BDiv(c.chars, 256), 256)
        s2 == BMod(BDiv(c.chars, 65536), 256)
        s3 == BMod(BDiv(c.chars, 16777216), 256)
    IN  c.data \o <<s0, s1, s2, s3>>

\* Code::write_to_file: the bytes written
write_to_file(c) ==
    LET s0 == BMod(c.chars, 256)
        s1 == BMod(BDiv(c.chars, 256), 256)
        s2 == BMod(BDiv(c.chars, 65536), 256)
        s3 == BMod(BDiv(c.chars, 16777216), 256)
    IN  c.data \o <<s3, s2, s1, s0>>

RECURSIVE PopCount(_, _)
\* the loop of read_from_file: the i-th pop takes the last byte of bytes
PopCount(bytes, i) ==
    IF i > 3 THEN <<>>
    ELSE BAdd(BMul(BN(bytes[Len(bytes)]), BN(256^i)),
              PopCount(SubSeq(bytes, 1, Len(bytes) - 1), i + 1))

\* Code::read_from_file, for a file of at least 4 bytes
read_from_file(bytes) ==
    LET data == SubSeq(bytes, 1, Len(bytes) - 4)
    IN  [data |-> data, write_index |-> Len(data) * 8, read_index |-> 0,
         chars |-> PopCount(bytes, 0)]

----------------------------------------------------------------------------
(* interval arithmetic shared by encode and decode *)

MaxU64 == <<Base - 1, Base - 1, Base - 1, Base - 1, 15>>

\* high as u64 - low as u64 + 1 (low <= high)
RangeOf(lo, hi) == BAdd(BSub(hi, lo), <<1>>)

\* (range * prob.pro[i]) / prob.sum, in u64
Scaled(range, p, i) == BDiv(BMul(range, BN(p.pro[i])), p.sum)

\* low as u64 + (range * prob.pro[i]) / prob.sum - 1, in u64 (wrapping when it is 0 - 1)
UpperEnd(lo, range, p, i) ==
    LET a == BAdd(lo, Scaled(range, p, i))
    IN  IF a = <<>> THEN MaxU64 ELSE BSub(a, <<1>>)

\* the new high without the "- 1" of lines 234 and 291
NewHighNoMinus(lo, hi, p, c) == AsU32(BAdd(lo, Scaled(RangeOf(lo, hi), p, c + 1)))

\* the new high of lines 234 and 291
NewHigh(lo, hi, p, c) == AsU32(UpperEnd(lo, RangeOf(lo, hi), p, c + 1))

\* the new low of lines 235 and 292
NewLow(lo, hi, p, c) == AsU32(BAdd(lo, Scaled(RangeOf(lo, hi), p, c)))

\* an overflow check of a debug build fails while narrowing
NarrowOverflows(lo, hi, p, c) ==
    BLt(hi, lo) \/ BAdd(lo, Scaled(RangeOf(lo, hi), p, c + 1)) = <<>>

RECURSIVE FirstHitStrict(_, _, _, _, _, _)
\* FirstHit with "<" for the "<=" of line 209
FirstHitStrict(lo, range, val, p, a, b) ==
    IF a = b THEN (IF BLt(val, UpperEnd(lo, range, p, a)) THEN a ELSE 0)
    ELSE LET l == FirstHitStrict(lo, range, val, p, a, (a + b) \div 2)
         IN  IF l # 0 THEN l ELSE FirstHitStrict(lo, range, val, p, (a + b) \div 2 + 1, b)

RECURSIVE FirstHit(_, _, _, _, _, _)
\* the first i in a .. b, in increasing order, that passes the test of line 209;
\* 0 when there is none (the search goes by halves to keep the depth of evaluation small)
FirstHit(lo, range, val, p, a, b) ==
    IF a = b THEN (IF BLe(val, UpperEnd(lo, range, p, a)) THEN a ELSE 0)
    ELSE LET l == FirstHit(lo, range, val, p, a, (a + b) \div 2)
         IN  IF l # 0 THEN l ELSE FirstHit(lo, range, val, p, (a + b) \div 2 + 1, b)

\* get_code returning i for the i - 1 of line 210
get_code_next(lo, hi, val, p) ==
    LET i == FirstHit(lo, RangeOf(lo, hi), val, p, 1, 255)
    IN  IF i # 0 THEN i ELSE 255

\* Code::get_code
get_code(lo, hi, val, p) ==
    LET i == FirstHit(lo, RangeOf(lo, hi), val, p, 1, 255)
    IN  IF i # 0 THEN i - 1 ELSE 255

\* the conditions of the renormalization loop, in the order the code tests them
CondE1(lo, hi) == BLt(hi, Two31)
CondE2(lo, hi) == BLe(Two31, lo)
CondE3(lo, hi) == BLe(Two30, lo) /\ BLt(hi, Three30)

TakesE1(lo, hi) == CondE1(lo, hi)
TakesE2(lo, hi) == ~CondE1(lo, hi) /\ CondE2(lo, hi)
\* the third branch taken whenever its condition holds, whatever the first two say
TakesE3Unordered(lo, hi) == CondE3(lo, hi)

TakesE3(lo, hi) == ~CondE1(lo, hi) /\ ~CondE2(lo, hi) /\ CondE3(lo, hi)
TakesBreak(lo, hi) == ~CondE1(lo, hi) /\ ~CondE2(lo, hi) /\ ~CondE3(lo, hi)

----------------------------------------------------------------------------
(* Code::encode *)

\* the history enc_trace is kept for inputs of at most TraceMax symbols
TraceMax == 2 * CYCLE

EncVars == <<position, low, high, pending_bits, prob, code, enc_trace, enc_tables>>

\* the counts that are not zero
Support(temp) == [x \in {y \in Symbols : temp[y] > 0} |-> temp[x]]

\* what enc_trace keeps of the encoder's state before a symbol: the interval and the
\* Probabilities, with temp by its non-zero entries and pro by its place in tables
Snapshot(lo, hi, p, tables) ==
    [low |-> lo, high |-> hi, sum |-> p.sum, cycle |-> p.cycle,
     counts |-> Support(p.temp),
     table |-> IF tables # <<>> /\ tables[Len(tables)] = p.pro THEN Len(tables) ELSE 0,
     cases |-> <<>>]
DecVars == <<dcode, d_low, d_high, value, d_prob, res, past_end, seeded>>

\* lines 274-283
EncodeStart ==
    /\ pc = "start"
    /\ UNCHANGED BitVars
    /\ prob' = ProbNew
    /\ code' = [CodeNew EXCEPT !.chars = BN(Len(input))]
    /\ high' = MaxU32
    /\ low' = <<>>
    /\ pending_bits' = 0
    /\ position' = 0
    /\ pc' = "enc_loop"
    /\ enc_tables' = <<ProbNew.pro>>
    /\ UNCHANGED <<input, file, entropy_of, cases, enc_trace>>
    /\ UNCHANGED DecVars

\* lines 284-292: take the next symbol and narrow the interval
EncodeSymbol ==
    /\ pc = "enc_loop"
    /\ UNCHANGED BitVars
    /\ position < Len(input)
    /\ LET c == input[position + 1]
       IN  /\ position' = position + 1
           /\ enc_trace' = IF Len(input) <= TraceMax
                  THEN Append(enc_trace, Snapshot(low, high, prob, enc_tables))
                  ELSE enc_trace
           /\ \/ /\ NarrowOverflows(low, high, prob, c)
                 /\ pc' = "panic_overflow"
                 /\ UNCHANGED <<low, high>>
              \/ /\ high' = NewHigh(low, high, prob, c)
                 /\ low' = NewLow(low, high, prob, c)
                 /\ pc' = "enc_renorm"
    /\ cases' = <<>>
    /\ UNCHANGED <<input, pending_bits, prob, code, file, entropy_of, enc_tables>>
    /\ UNCHANGED DecVars

\* EncodeE1 without the "high |= 1" of line 302
EncodeE1NoOne ==
    /\ pc = "enc_renorm"
    /\ UNCHANGED BitVars
    /\ TakesE1(low, high)
    /\ code' = add_bits(add_bit(code, FALSE), TRUE, pending_bits)
    /\ pending_bits' = 0
    /\ low' = Shl1(low)
    /\ high' = Shl1(high)
    /\ cases' = Append(cases, "E1")
    /\ UNCHANGED <<input, pc, position, prob, file, entropy_of, enc_trace, enc_tables>>
    /\ UNCHANGED DecVars

\* lines 294-302
EncodeE1 ==
    /\ pc = "enc_renorm"
    /\ UNCHANGED BitVars
    /\ TakesE1(low, high)
    /\ code' = add_bits(add_bit(code, FALSE), TRUE, pending_bits)
    /\ pending_bits' = 0
    /\ low' = Shl1(low)
    /\ high' = BOr(Shl1(high), <<1>>)
    /\ cases' = Append(cases, "E1")
    /\ UNCHANGED <<input, pc, position, prob, file, entropy_of, enc_trace, enc_tables>>
    /\ UNCHANGED DecVars

\* EncodeE2 without the loop of lines 305-307: the pending bits are forgotten
EncodeE2DropsPending ==
    /\ pc = "enc_renorm"
    /\ UNCHANGED BitVars
    /\ TakesE2(low, high)
    /\ code' = add_bit(code, TRUE)
    /\ pending_bits' = 0
    /\ low' = Shl1(low)
    /\ high' = BOr(Shl1(high), <<1>>)
    /\ cases' = Append(cases, "E2")
    /\ UNCHANGED <<input, pc, position, prob, file, entropy_of, enc_trace, enc_tables>>
    /\ UNCHANGED DecVars

\* lines 303-311
EncodeE2 ==
    /\ pc = "enc_renorm"
    /\ UNCHANGED BitVars
    /\ TakesE2(low, high)
    /\ code' = add_bits(add_bit(code, TRUE), FALSE, pending_bits)
    /\ pending_bits' = 0
    /\ low' = Shl1(low)
    /\ high' = BOr(Shl1(high), <<1>>)
    /\ cases' = Append(cases, "E2")
    /\ UNCHANGED <<input, pc, position, prob, file, entropy_of, enc_trace, enc_tables>>
    /\ UNCHANGED DecVars

\* case E3 of encode without the pending_bits += 1 of line 313
EncodeE3NoPending ==
    /\ pc = "enc_renorm"
    /\ UNCHANGED BitVars
    /\ TakesE3(low, high)
    /\ low' = BAnd(Shl1(low), Mask31)
    /\ high' = BOr(Shl1(high), Top1)
    /\ cases' = Append(cases, "E3")
    /\ UNCHANGED <<input, pc, position, prob, code, file, entropy_of, enc_trace,
                   enc_tables, pending_bits>>
    /\ UNCHANGED <<dcode, d_low, d_high, value, d_prob, res, past_end, seeded>>

\* lines 312-317
EncodeE3 ==
    /\ pc = "enc_renorm"
    /\ UNCHANGED BitVars
    /\ TakesE3(low, high)
    /\ pending_bits' = pending_bits + 1
    /\ low' = BAnd(Shl1(low), Mask31)
    /\ high' = BOr(Shl1(high), Top1)
    /\ cases' = Append(cases, "E3")
    /\ UNCHANGED <<input, pc, position, prob, code, file, entropy_of, enc_trace,
                   enc_tables>>
    /\ UNCHANGED DecVars

\* lines 318-322: leave the loop and observe the symbol
EncodeBreak ==
    /\ pc = "enc_renorm"
    /\ UNCHANGED BitVars
    /\ TakesBreak(low, high)
    /\ enc_trace' = IF Len(input) <= TraceMax
                       THEN [enc_trace EXCEPT ![position].cases = cases]
                       ELSE enc_trace
    /\ IF AddPanics(prob, input[position])
         THEN pc' = "panic_model" /\ UNCHANGED <<prob, enc_tables>>
         ELSE /\ pc' = "enc_loop"
              /\ \E q \in {add(prob, input[position])} :
                    /\ prob' = q
                    /\ enc_tables' = IF q.pro # prob.pro /\ Len(input) <= TraceMax
                                        THEN Append(enc_tables, q.pro)
                                        ELSE enc_tables
    /\ UNCHANGED <<input, position, low, high, pending_bits, code, file, entropy_of, cases>>
    /\ UNCHANGED DecVars

\* lines 324-326: the flush bit, compute_entropy, return
EncodeFlush ==
    /\ pc = "enc_loop"
    /\ UNCHANGED BitVars
    /\ position = Len(input)
    /\ code' = add_bit(code, TRUE)
    /\ entropy_of' = [entropy_of EXCEPT !.encode = prob.temp]
    /\ pc' = "encoded"
    /\ UNCHANGED <<input, position, low, high, pending_bits, prob, file, cases, enc_trace,
                   enc_tables>>
    /\ UNCHANGED DecVars

----------------------------------------------------------------------------
(* the file *)

\* Code::write_to_file (lines 150-175), the file being writable
WriteToFile ==
    /\ pc = "encoded"
    /\ UNCHANGED BitVars
    /\ file' = write_to_file(code)
    /\ pc' = "written"
    /\ UNCHANGED <<input, entropy_of, cases>>
    /\ UNCHANGED EncVars
    /\ UNCHANGED DecVars

\* Code::read_from_file (lines 177-201), the file being readable
ReadFromFile ==
    /\ pc \in {"written", "tampered"}
    /\ UNCHANGED BitVars
    /\ IF Len(file) < 4
         THEN pc' = "panic_file" /\ UNCHANGED dcode
         ELSE pc' = "read" /\ dcode' = read_from_file(file)
    /\ UNCHANGED <<input, file, entropy_of, cases>>
    /\ UNCHANGED EncVars
    /\ UNCHANGED <<d_low, d_high, value, d_prob, res, past_end, seeded>>

----------------------------------------------------------------------------
(* Code::decode *)

\* the shift of value without the bit read
PullNoBit(v, c) == Shl1(v)

\* value <<= 1; if get_bit_and_shift() { value += 1 }
Pull(v, c) == IF NextBit(c) THEN BOr(Shl1(v), <<1>>) ELSE Shl1(v)

\* lines 217-223
DecodeStart ==
    /\ pc = "read"
    /\ UNCHANGED BitVars
    /\ d_prob' = ProbNew
    /\ res' = <<>>
    /\ d_high' = MaxU32
    /\ d_low' = <<>>
    /\ value' = <<>>
    /\ seeded' = 0
    /\ pc' = "dec_seed"
    /\ cases' = <<>>
    /\ UNCHANGED <<input, file, dcode, entropy_of, past_end>>
    /\ UNCHANGED EncVars

\* lines 224-229: one iteration of the loop that reads the first 32 bits
DecodeSeed ==
    /\ pc = "dec_seed"
    /\ UNCHANGED BitVars
    /\ seeded < 32
    /\ value' = Pull(value, dcode)
    /\ dcode' = Shifted(dcode)
    /\ past_end' = IF AtEnd(dcode) THEN past_end + 1 ELSE past_end
    /\ seeded' = seeded + 1
    /\ pc' = IF seeded + 1 = 32 THEN "dec_loop" ELSE "dec_seed"
    /\ UNCHANGED <<input, file, d_low, d_high, d_prob, res, entropy_of, cases>>
    /\ UNCHANGED EncVars

\* lines 231-242: find the symbol, push it, narrow; stop at chars symbols
DecodeSymbol ==
    /\ pc = "dec_loop"
    /\ UNCHANGED BitVars
    /\ \E c \in {get_code(d_low, d_high, value, d_prob)} :
           /\ res' = Append(res, c)
           /\ \/ /\ NarrowOverflows(d_low, d_high, d_prob, c)
                 /\ pc' = "panic_overflow"
                 /\ UNCHANGED <<d_low, d_high, entropy_of>>
              \/ /\ d_high' = NewHigh(d_low, d_high, d_prob, c)
                 /\ d_low' = NewLow(d_low, d_high, d_prob, c)
                 /\ IF dcode.chars = <<>>
                      THEN pc' = "panic_div0" /\ UNCHANGED entropy_of
                      ELSE IF BLe(dcode.chars, BN(Len(res) + 1))
                      THEN /\ pc' = "done"
                           /\ entropy_of' = [entropy_of EXCEPT !.decode = d_prob.temp]
                      ELSE pc' = "dec_renorm" /\ UNCHANGED entropy_of
    /\ cases' = <<>>
    /\ UNCHANGED <<input, file, dcode, value, d_prob, past_end, seeded>>
    /\ UNCHANGED EncVars

\* lines 257-263: the shift every case ends with
DecodeShift(lo, hi, v, case) ==
    /\ d_low' = Shl1(lo)
    /\ d_high' = BAdd(Shl1(hi), <<1>>)
    /\ value' = Pull(v, dcode)
    /\ dcode' = Shifted(dcode)
    /\ past_end' = IF AtEnd(dcode) THEN past_end + 1 ELSE past_end
    /\ cases' = Append(cases, case)
    /\ pc' = "dec_renorm"

\* a u32 subtraction that a debug build checks and a release build wraps
DecodeSubtract(amount, case) ==
    \/ /\ BLt(value, amount) \/ BLt(d_low, amount) \/ BLt(d_high, amount)
       /\ pc' = "panic_overflow"
       /\ UNCHANGED <<dcode, d_low, d_high, value, past_end, cases>>
    \/ DecodeShift(WrapSub(d_low, amount), WrapSub(d_high, amount),
                   WrapSub(value, amount), case)

\* lines 244-245
DecodeE1 ==
    /\ pc = "dec_renorm"
    /\ UNCHANGED BitVars
    /\ TakesE1(d_low, d_high)
    /\ DecodeShift(d_low, d_high, value, "E1")
    /\ UNCHANGED <<input, file, d_prob, res, entropy_of, seeded>>
    /\ UNCHANGED EncVars

\* lines 246-249
DecodeE2 ==
    /\ pc = "dec_renorm"
    /\ UNCHANGED BitVars
    /\ TakesE2(d_low, d_high)
    /\ DecodeSubtract(Two31, "E2")
    /\ UNCHANGED <<input, file, d_prob, res, entropy_of, seeded>>
    /\ UNCHANGED EncVars

\* lines 250-253
DecodeE3 ==
    /\ pc = "dec_renorm"
    /\ UNCHANGED BitVars
    /\ TakesE3(d_low, d_high)
    /\ DecodeSubtract(Two30, "E3")
    /\ UNCHANGED <<input, file, d_prob, res, entropy_of, seeded>>
    /\ UNCHANGED EncVars

\* lines 254-256 and 265: leave the loop and observe the symbol
DecodeBreak ==
    /\ pc = "dec_renorm"
    /\ UNCHANGED BitVars
    /\ TakesBreak(d_low, d_high)
    /\ IF AddPanics(d_prob, res[Len(res)])
         THEN pc' = "panic_model" /\ UNCHANGED d_prob
         ELSE pc' = "dec_loop" /\ d_prob' = add(d_prob, res[Len(res)])
    /\ UNCHANGED <<input, file, dcode, d_low, d_high, value, res, entropy_of, past_end, cases,
                   seeded>>
    /\ UNCHANGED EncVars

----------------------------------------------------------------------------
(* the inputs *)

\* n bytes starting at first and going up by stride
Pattern(first, stride, n) == [i \in 1 .. n |-> (first + (i - 1) * stride) % 256]

MaxShort == 2
MaxOver == 5
MaxLong == 0
MaxSkew == 10

Firsts == {0, 255}
Strides == {0, 1, 128}

\* lengths around 0, around the first rescale, and some symbols past it
Lengths ==
    (0 .. MaxShort) \cup ((CYCLE - 1) .. (CYCLE + 1)) \cup {CYCLE + MaxOver}

\* two bytes in turn up to the first rescale, then MaxSkew bytes: the first of the
\* two, but for the other one in the eighth place
Skewed(f) ==
    Pattern(f, 128, CYCLE) \o [i \in 1 .. MaxSkew |-> IF i = 8 THEN (f + 128) % 256 ELSE f]

\* the same, and then the other byte once more
SkewedBack(f) == Append(Skewed(f), (f + 128) % 256)

Inputs ==
    {Pattern(f, k, n) : f \in Firsts, k \in Strides, n \in Lengths}
      \cup {Skewed(f) : f \in Firsts} \cup {SkewedBack(f) : f \in Firsts}

\* inputs that hold every byte value
LongInputs == {Pattern(0, 1, 4 * CYCLE + j) : j \in 0 .. MaxLong}

NoCoder ==
    /\ position = 0 /\ low = <<>> /\ high = <<>> /\ pending_bits = 0
    /\ prob = ProbNew /\ dcode = CodeNew
    /\ d_low = <<>> /\ d_high = <<>> /\ value = <<>> /\ d_prob = ProbNew
    /\ res = <<>> /\ entropy_of = [encode |-> <<>>, decode |-> <<>>]
    /\ past_end = 0 /\ seeded = 0 /\ cases = <<>> /\ enc_trace = <<>>
    /\ enc_tables = <<>>
    /\ put = <<>> /\ got = <<>>

NoState == NoCoder /\ code = CodeNew

Init ==
    /\ input \in Inputs
    /\ pc = "start"
    /\ file = <<>>
    /\ NoState

Next ==
    \/ EncodeStart \/ EncodeSymbol \/ EncodeE1 \/ EncodeE2 \/ EncodeE3
    \/ EncodeBreak \/ EncodeFlush
    \/ WriteToFile \/ ReadFromFile
    \/ DecodeStart \/ DecodeSeed \/ DecodeSymbol \/ DecodeE1 \/ DecodeE2 \/ DecodeE3
    \/ DecodeBreak

\* encode, write, read, decode of one input
Spec == Init /\ [][Next]_vars

InitLong ==
    /\ input \in Inputs \cup LongInputs
    /\ pc = "start"
    /\ file = <<>>
    /\ NoState

\* the same, with the inputs that hold every byte value
SpecLong == InitLong /\ [][Next]_vars

----------------------------------------------------------------------------
(* decode of artifacts that encode did not produce *)

MaxArbLen == 2
MaxCount == 3

ArbBytes == {0, 90, 128, 255}

RECURSIVE SeqsUpTo(_, _)
\* the sequences over S of length at most n
SeqsUpTo(S, n) ==
    IF n = 0 THEN {<<>>}
    ELSE LET shorter == SeqsUpTo(S, n - 1)
         IN  shorter \cup {Append(q, x) : q \in shorter, x \in S}

\* files with any bit buffer and any small count, and files too short to hold a count
ArbFiles ==
    {d \o <<0, 0, 0, n>> : d \in SeqsUpTo(ArbBytes, MaxArbLen), n \in 0 .. MaxCount}
      \cup SeqsUpTo({0}, 3)

\* the file of an encode is damaged before it is read: its last data byte is lost,
\* its count is one more, or the first bit is flipped
Damaged(f) ==
    LET n == Len(f)
    IN  (IF n >= 5 THEN {SubSeq(f, 1, n - 5) \o SubSeq(f, n - 3, n)} ELSE {})
          \cup (IF n >= 4 /\ f[n] < 255 THEN {[f EXCEPT ![n] = @ + 1]} ELSE {})
          \cup (IF n >= 5 THEN {[f EXCEPT ![1] = (@ + 128) % 256]} ELSE {})

Tamper ==
    /\ pc = "written"
    /\ UNCHANGED BitVars
    /\ file' \in Damaged(file)
    /\ pc' = "tampered"
    /\ UNCHANGED <<input, entropy_of, cases>>
    /\ UNCHANGED EncVars
    /\ UNCHANGED DecVars

TamperInputs == {Pattern(f, 128, n) : f \in Firsts, n \in {1, CYCLE + MaxOver}}

InitArb ==
    /\ NoState
    /\ \/ input \in TamperInputs /\ pc = "start" /\ file = <<>>
       \/ input = <<>> /\ pc = "written" /\ file \in ArbFiles

NextArb == Next \/ Tamper

SpecArb == InitArb /\ [][NextArb]_vars


\* the steps EncodeE1 .. EncodeE3 and DecodeE1 .. DecodeE3 take: at the head of the loop
\* one of the three conditions holds, a case is applied and the loop is not left
Renormalize ==
    /\ pc \in {"enc_renorm", "dec_renorm"}
    /\ IF pc = "enc_renorm" THEN ~TakesBreak(low, high) ELSE ~TakesBreak(d_low, d_high)
    /\ pc' = pc
    /\ \E c \in {"E1", "E2", "E3"} : cases' = Append(cases, c)

\* the same program, its loops going round while one of the conditions holds
SpecArbFair == InitArb /\ [][NextArb]_vars /\ WF_<<pc, cases>>(Renormalize)

----------------------------------------------------------------------------
(* write_to_file and read_from_file on any Code *)

MaxAllBits == 3
MaxRunBits == 17

\* every bit string of at most MaxAllBits bits, and the runs of 1 of at most MaxRunBits
FileBits ==
    SeqsUpTo({FALSE, TRUE}, MaxAllBits)
      \cup {[i \in 1 .. n |-> TRUE] : n \in 0 .. MaxRunBits}

\* counts around the powers of 256 and around 2^32
FileCounts ==
    {<<>>, <<1>>, BN(255), BN(256), BN(65535), BN(65536), BN(16777215), BN(16777216),
     BN(16909060), MaxU32, Two32, BAdd(Two32, <<1>>), BAdd(Two32, BN(16909060)),
     BShl(<<1>>, 40)}

RECURSIVE BuildCode(_)
\* the Code after add_bit of each bit of bits, in order
BuildCode(bits) ==
    IF bits = <<>> THEN CodeNew
    ELSE add_bit(BuildCode(SubSeq(bits, 1, Len(bits) - 1)), bits[Len(bits)])

InitFile ==
    /\ NoCoder
    /\ code \in {[BuildCode(b) EXCEPT !.chars = n] : b \in FileBits, n \in FileCounts}
    /\ input = <<>> /\ file = <<>> /\ pc = "encoded"

NextFile == WriteToFile \/ ReadFromFile

SpecFile == InitFile /\ [][NextFile]_vars

----------------------------------------------------------------------------
(* Probabilities under a sequence of add calls *)

MaxObs == 320

ObsInputs == {Pattern(f, k, MaxObs) : f \in Firsts, k \in Strides \cup {3}}

\* one call of Probabilities::add, with the next symbol of input
Observe ==
    /\ pc = "model"
    /\ UNCHANGED BitVars
    /\ position < Len(input)
    /\ position' = position + 1
    /\ IF AddPanics(prob, input[position + 1])
         THEN pc' = "panic_model" /\ UNCHANGED prob
         ELSE pc' = "model" /\ prob' = add(prob, input[position + 1])
    /\ UNCHANGED <<input, low, high, pending_bits, code, file, entropy_of, cases,
                   enc_trace, enc_tables>>
    /\ UNCHANGED DecVars

InitModel ==
    /\ NoState
    /\ input \in ObsInputs /\ file = <<>> /\ pc = "model"

SpecModel == InitModel /\ [][Observe]_vars

----------------------------------------------------------------------------
(* the rescale after many cycles *)

MaxCycles == 91

\* temp after n calls of add, a of them with symbol x and the others with symbol y
TwoCounts(x, a, y, n) ==
    [s \in Symbols |-> (IF s = x THEN a ELSE 0) + (IF s = y THEN n - a ELSE 0)]

\* the Probabilities one call of add before the m-th rescale, symbol x having come a
\* times, each time before the last symbol of a cycle, and symbol y all the other times
BeforeRescale(x, a, y, m) ==
    [temp  |-> TwoCounts(x, a, y, m * CYCLE - 1),
     cycle |-> CYCLE - 1,
     pro   |-> IF m = 1 THEN ProbNew.pro
               ELSE update_probabilities(
                       [ProbNew EXCEPT !.temp = TwoCounts(x, (a * (m - 1)) \div m, y,
                                                          (m - 1) * CYCLE)]).pro,
     sum   |-> IF m = 1 THEN 256 ELSE PRECISION]

\* the last call of add of a cycle, for x never seen and for x seen once a cycle
InitRescale ==
    /\ pc = "model"
    /\ file = <<>> /\ code = CodeNew /\ dcode = CodeNew
    /\ position = 0 /\ low = <<>> /\ high = <<>> /\ pending_bits = 0
    /\ d_low = <<>> /\ d_high = <<>> /\ value = <<>> /\ d_prob = ProbNew
    /\ res = <<>> /\ entropy_of = [encode |-> <<>>, decode |-> <<>>]
    /\ past_end = 0 /\ seeded = 0 /\ cases = <<>> /\ enc_trace = <<>>
    /\ enc_tables = <<>> /\ put = <<>> /\ got = <<>>
    /\ \E m \in 1 .. MaxCycles, a \in {0, 1}, xy \in {<<0, 255>>, <<255, 0>>, <<1, 0>>} :
          /\ input = <<xy[2]>>
          /\ prob = BeforeRescale(xy[1], a * m, xy[2], m)

SpecRescale == InitRescale /\ [][Observe]_vars

----------------------------------------------------------------------------
(* get_code on the intervals the renormalization loop can leave *)

MaxEdge == 1

\* the symbols at both ends and in the middle of the table
EdgeSymbols == (0 .. MaxEdge) \cup {127, 128} \cup ((255 - MaxEdge) .. 255)

\* temp after add was called with the first n symbols of s
CountsOf(s, n) == [x \in Symbols |-> Cardinality({i \in 1 .. n : s[i] = x})]

\* the Probabilities after add was called with each symbol of s, for s of CYCLE symbols
ModelAfter(s) == update_probabilities([ProbNew EXCEPT !.temp = CountsOf(s, Len(s))])

SearchModels ==
    {ProbNew} \cup {ModelAfter(Pattern(f, k, CYCLE)) : f \in Firsts, k \in Strides}

\* intervals that satisfy none of the three conditions: the full one, and the narrowest
\* ones across the middle and across the quarters
SearchIntervals ==
    {<<(<<>>), MaxU32>>, <<(<<>>), Two31>>, <<BSub(Two30, <<1>>), Two31>>,
     <<BSub(Two31, <<1>>), Three30>>, <<BSub(Two31, <<1>>), MaxU32>>, <<Two30, Three30>>}

\* the ends of the interval and of the parts of the edge symbols
SearchValues(lo, hi, p) ==
    {lo, hi} \cup {NewLow(lo, hi, p, c) : c \in EdgeSymbols}
             \cup {NewHigh(lo, hi, p, c) : c \in EdgeSymbols}

InitSearch ==
    /\ pc = "search"
    /\ input = <<>> /\ file = <<>> /\ code = CodeNew /\ dcode = CodeNew
    /\ position = 0 /\ low = <<>> /\ high = <<>> /\ pending_bits = 0 /\ prob = ProbNew
    /\ res = <<>> /\ entropy_of = [encode |-> <<>>, decode |-> <<>>]
    /\ past_end = 0 /\ seeded = 0 /\ cases = <<>> /\ enc_trace = <<>>
    /\ enc_tables = <<>> /\ put = <<>> /\ got = <<>>
    /\ d_prob \in SearchModels
    /\ \E iv \in SearchIntervals : d_low = iv[1] /\ d_high = iv[2]
    /\ value \in SearchValues(d_low, d_high, d_prob)

\* lines 232-233: the call of get_code
Search ==
    /\ pc = "search"
    /\ UNCHANGED BitVars
    /\ res' = Append(res, get_code(d_low, d_high, value, d_prob))
    /\ pc' = "found"
    /\ UNCHANGED <<input, file, entropy_of, cases, dcode, d_low, d_high, value, d_prob,
                   past_end, seeded>>
    /\ UNCHANGED EncVars

SpecSearch == InitSearch /\ [][Search]_vars

----------------------------------------------------------------------------
(* the bit buffer alone: add_bit calls, then get_bit_and_shift calls *)

MaxBits == 9
MaxPast == 2

InitBits ==
    /\ pc = "bits"
    /\ input = <<>> /\ file = <<>>
    /\ NoState

\* one call of add_bit
AppendBit ==
    /\ pc = "bits" /\ got = <<>>
    /\ Len(put) < MaxBits
    /\ \E b \in BOOLEAN :
          /\ code' = add_bit(code, b)
          /\ put' = Append(put, b)
    /\ UNCHANGED <<input, pc, position, low, high, pending_bits, prob, file, entropy_of,
                   cases, enc_trace, enc_tables, got>>
    /\ UNCHANGED DecVars

\* one call of get_bit_and_shift, up to MaxPast calls at the end of the buffer
ReadBit ==
    /\ pc = "bits"
    /\ Len(got) < 8 * Len(code.data) + MaxPast
    /\ got' = Append(got, NextBit(code))
    /\ code' = Shifted(code)
    /\ UNCHANGED <<input, pc, position, low, high, pending_bits, prob, file, entropy_of,
                   cases, enc_trace, enc_tables, put>>
    /\ UNCHANGED DecVars

NextBits == AppendBit \/ ReadBit

SpecBits == InitBits /\ [][NextBits]_vars

----------------------------------------------------------------------------
(* the properties *)

\* decode is at work or has returned
Decoding == pc \in {"dec_seed", "dec_loop", "dec_renorm", "done"}

\* the program has panicked
Panicked == pc \in {"panic_overflow", "panic_model", "panic_div0", "panic_file"}

\* the number of add calls p has seen
Observed(p) == SumTo(p.temp, 256)

\* the four bytes after the bit bytes of f, read most significant first
Trailer(f, n) ==
    BAdd(BShl(BN(f[n + 1]), 24),
         BAdd(BShl(BN(f[n + 2]), 16), BAdd(BShl(BN(f[n + 3]), 8), BN(f[n + 4]))))

\* C1: decode of the artifact of encode(S) returns exactly S for every non-empty S
\* (one byte, one byte repeated, every byte value, lengths around the rescale at 64),
\* also when encode ends with pending bits and decode reads zeros past the end:
\* what decode has produced is always a prefix of S, it is S when decode returns,
\* and nothing panics on the way.
RoundTrip ==
    /\ pc = "done" => res = input
    /\ pc \in {"dec_loop", "dec_renorm"} =>
          Len(res) <= Len(input) /\ res = SubSeq(input, 1, Len(res))
    /\ input # <<>> => ~Panicked

\* a round trip past the rescale that ended with pending bits and read past the end
RoundTripWithPending ==
    /\ pc = "done" /\ res = input
    /\ Len(input) > CYCLE /\ pending_bits > 0 /\ past_end > 0

\* C2: encode of the empty input gives the one byte 0x80 and count 0, decode of it
\* returns the empty sequence, and decode returns count symbols for every count.
EmptyInputRoundTrip ==
    /\ (input = <<>> /\ pc = "encoded") => code.data = <<128>> /\ code.chars = <<>>
    /\ (input = <<>> /\ Decoding) => res = <<>>
    /\ pc = "done" => BN(Len(res)) = dcode.chars
    /\ pc # "panic_div0"

\* C3: when decode returns, its Probabilities has seen every symbol it produced and
\* equals the Probabilities encode ended with, so both report the same entropy.
DecodeObservesEverySymbol ==
    pc = "done" =>
        /\ Observed(d_prob) = Len(res)
        /\ d_prob = prob
        /\ entropy_of.decode = entropy_of.encode

\* C4 as written: once the bit buffer has run out, decode is aborted; it is neither
\* still at work nor returning symbols.
ExhaustedBufferAborts == past_end > 0 => ~Decoding

\* C4 as amended: a read at the end of the buffer does not abort decode; it leaves
\* read_index at 8 * data.len() and answers 0 (the bits seeded past the end are the
\* low zero bits of value), decode goes on with those zeros without failing, and
\* returns exactly count symbols.
ExhaustedBufferReadsZero ==
    /\ past_end > 0 => dcode.read_index = 8 * Len(dcode.data)
    /\ (pc = "dec_seed" \/ (pc = "dec_loop" /\ res = <<>>)) =>
          value = BShl(BShr(value, past_end), past_end)
    /\ past_end > 0 => pc \notin {"panic_overflow", "panic_model"}
    /\ pc = "done" => BN(Len(res)) = dcode.chars

\* a damaged artifact whose buffer ran out and that decode turned into other symbols
ExhaustedBufferDecoded ==
    /\ pc = "done" /\ past_end > 0
    /\ input # <<>> /\ file # write_to_file(code) /\ res # input

\* C5 as written: decode of an artifact of encode never asks for a bit at or past
\* the end of the buffer.
NoReadPastEnd == past_end = 0

\* C5 as amended: decode of an artifact of encode never reads the buffer at or past
\* 8 * data.len(); it does ask for bits there, each time leaving read_index at the
\* end, and at most 31 + pending_bits times (pending_bits as encode left it).
ReadsPastEndBounded ==
    /\ dcode.read_index <= 8 * Len(dcode.data)
    /\ past_end > 0 => dcode.read_index = 8 * Len(dcode.data)
    /\ past_end <= 31 + pending_bits

\* decode returned after asking for more than 31 bits past the end, all of them in
\* renormalization shifts, encode having ended with pending bits
ReadPastEndInShifts ==
    /\ pc = "done" /\ 8 * Len(dcode.data) > 32
    /\ past_end > 31 /\ pending_bits > 0

\* C6: after any sequence of add calls pro[0] = 0, pro[256] = sum and every
\* pro[s + 1] - pro[s] is at least 1; at every rescale the deficit is in 0 .. 255, so
\* neither the assertion nor the indexing of update_probabilities fails.
TableInvariant ==
    /\ prob.pro[0] = 0 /\ prob.pro[256] = prob.sum
    /\ \A s \in Symbols : prob.pro[s + 1] - prob.pro[s] >= 1
    /\ (prob.sum = PRECISION /\ prob.cycle = 0) => Deficit(prob.temp) \in 0 .. 255
    /\ pc # "panic_model"

\* a rescale whose scale factor is not an integer and that hands out a deficit
RescaleWithDeficit ==
    /\ pc = "model" /\ prob.sum = PRECISION /\ prob.cycle = 0
    /\ Observed(prob) > 4 * CYCLE /\ Deficit(prob.temp) > 0

\* p has the table of Probabilities::new until it has seen CYCLE symbols, and the
\* sum PRECISION from then on
ColdUntilCycle(p) ==
    \E n \in {Observed(p)} :
        IF n < CYCLE THEN p.pro = ProbNew.pro /\ p.sum = 256 ELSE p.sum = PRECISION

\* C7: with fewer than 64 symbols observed pro[i] = i and sum = 256, afterwards sum is
\* PRECISION, and sum is never anything else; the first 64 symbols of an input are
\* coded with the uniform table and the 65th with a rescaled one, in encode and decode.
ColdStart ==
    /\ prob.sum \in {256, PRECISION} /\ d_prob.sum \in {256, PRECISION}
    /\ ColdUntilCycle(prob) /\ ColdUntilCycle(d_prob)
    /\ pc = "enc_renorm" =>
          IF position <= CYCLE THEN prob.pro = ProbNew.pro /\ prob.sum = 256
                               ELSE prob.sum = PRECISION
    /\ pc = "dec_renorm" =>
          IF Len(res) <= CYCLE THEN d_prob.pro = ProbNew.pro /\ d_prob.sum = 256
                               ELSE d_prob.sum = PRECISION

\* the 65th symbol has just been coded, with a rescaled table
SixtyFifthSymbol ==
    pc = "enc_renorm" /\ position = CYCLE + 1 /\ prob.sum = PRECISION

\* C8: the file is the bit bytes, ceil(write_index / 8) of them, then the count
\* modulo 2^32 as 4 bytes, most significant first; read_from_file gives back the
\* same bytes, read_index 0 and that count, which is the count itself below 2^32.
FileRoundTrip ==
    /\ pc \in {"written", "read"} =>
          /\ Len(file) = (code.write_index + 7) \div 8 + 4
          /\ SubSeq(file, 1, Len(file) - 4) = code.data
          /\ \A i \in 1 .. Len(file) : file[i] \in 0 .. 255
          /\ Trailer(file, Len(file) - 4) = AsU32(code.chars)
    /\ pc = "read" =>
          /\ dcode.data = code.data /\ dcode.read_index = 0
          /\ dcode.chars = AsU32(code.chars)
          /\ BLt(code.chars, Two32) => dcode.chars = code.chars
    /\ pc # "panic_file"

\* a Code with a count of 2^32 or more and a last byte partly filled, written and read
FileOfLargeCount ==
    /\ pc = "read" /\ BLe(Two32, code.chars) /\ dcode.chars # code.chars
    /\ dcode.chars # <<>> /\ code.write_index % 8 # 0

\* C9: before it decodes symbol i, decode has the low, high, pro, sum and temp that
\* encode had before it encoded symbol i, and for every symbol but the last decode
\* takes the renormalization cases encode took, in the same order.
Lockstep ==
    /\ (pc = "dec_loop" /\ Len(res) < Len(enc_trace)) =>
          \E t \in {enc_trace[Len(res) + 1]} :
              /\ d_low = t.low /\ d_high = t.high
              /\ d_prob.sum = t.sum /\ d_prob.cycle = t.cycle
              /\ Support(d_prob.temp) = t.counts
              /\ t.table # 0 /\ d_prob.pro = enc_tables[t.table]
    /\ (pc = "dec_loop" /\ Len(res) >= 1 /\ Len(res) <= Len(enc_trace)) =>
          cases = enc_trace[Len(res)].cases

\* decode stands before a symbol past the rescale, having just taken case E3
LockstepThroughE3 ==
    /\ pc = "dec_loop" /\ Len(res) > CYCLE /\ Len(res) < Len(input)
    /\ \E i \in 1 .. Len(cases) : cases[i] = "E3"
    /\ d_prob.sum = PRECISION

\* C10: whatever the bit buffer holds, low <= value <= high after seeding, after each
\* narrowing and after each shift of decode, so no subtraction of case E2 or E3 (and no
\* other checked operation of decode) overflows.
WindowInvariant ==
    /\ pc \in {"dec_loop", "dec_renorm", "done"} =>
          BLe(d_low, value) /\ BLe(value, d_high)
    /\ (pc = "dec_renorm" /\ TakesE2(d_low, d_high)) => BLe(Two31, value)
    /\ (pc = "dec_renorm" /\ TakesE3(d_low, d_high)) => BLe(Two30, value)
    /\ pc # "panic_overflow"

\* decode of a damaged artifact, off the symbols that were encoded, about to take
\* case E3
WindowInDamagedE3 ==
    /\ pc = "dec_renorm" /\ TakesE3(d_low, d_high)
    /\ file # write_to_file(code)
    /\ ~(Len(res) <= Len(input) /\ res = SubSeq(input, 1, Len(res)))

\* every symbol gets a part of the interval lo .. hi that is not empty, and the upper
\* end of the last part is a u32
AllPartsFit(lo, hi, p) ==
    \E s \in {[i \in 0 .. 256 |-> Scaled(RangeOf(lo, hi), p, i)]} :
        /\ \A c \in Symbols : BLt(s[c], s[c + 1])
        /\ BLe(BAdd(lo, s[256]), Two32)

\* C11: low <= high in every state of encode and of decode; when the renormalization
\* loop has been left high - low >= 2^30, so that at the next narrowing each of the
\* 256 symbols gets a part that is not empty and no new bound is cut by the cast to u32.
RangeInvariant ==
    /\ BLe(low, high) /\ BLe(d_low, d_high)
    /\ pc = "enc_loop" => BLe(Two30, BSub(high, low)) /\ AllPartsFit(low, high, prob)
    /\ pc = "dec_loop" =>
          BLe(Two30, BSub(d_high, d_low)) /\ AllPartsFit(d_low, d_high, d_prob)

\* encode stands before a symbol with a rescaled table and an interval of less than
\* half the full range that lies across the middle
NarrowRangeAtLoopExit ==
    /\ pc = "enc_loop" /\ 0 < position /\ position < Len(input)
    /\ prob.sum = PRECISION
    /\ BLt(BSub(high, low), Two31) /\ BLt(low, Two30)


\* the head of the renormalization loop of encode or of decode, and its interval
RenormHead == pc \in {"enc_renorm", "dec_renorm"}
HeadLow == IF pc = "enc_renorm" THEN low ELSE d_low
HeadHigh == IF pc = "enc_renorm" THEN high ELSE d_high

\* how many of the three conditions hold of lo .. hi
CondsHolding(lo, hi) ==
    Cardinality({k \in {1, 2, 3} : \/ k = 1 /\ CondE1(lo, hi)
                                   \/ k = 2 /\ CondE2(lo, hi)
                                   \/ k = 3 /\ CondE3(lo, hi)})

\* C13 as stated: at the head of the renormalization loop at most one of E1, E2 and E3
\* holds.
CasesExclusive == RenormHead => CondsHolding(HeadLow, HeadHigh) <= 1

\* C13: at the head of the renormalization loop E1 and E2 never hold together, while E3
\* can hold together with either; an iteration applies E1 when E1 holds, E2 when E2
\* holds, and E3 only when E3 holds and neither E1 nor E2 does, that is when
\* 2^30 <= low < 2^31 <= high < 3 * 2^30; the loop is left when none holds.
CasesInOrder ==
    /\ [](RenormHead => ~(CondE1(HeadLow, HeadHigh) /\ CondE2(HeadLow, HeadHigh)))
    /\ [][RenormHead =>
            IF cases' # cases
            THEN \E c \in {cases'[Len(cases')]} :
                    /\ Len(cases') = Len(cases) + 1
                    /\ c = "E1" <=> BLt(HeadHigh, Two31)
                    /\ c = "E2" <=> BLe(Two31, HeadLow)
                    /\ c = "E3" <=> /\ BLe(Two30, HeadLow) /\ BLt(HeadLow, Two31)
                                    /\ BLe(Two31, HeadHigh) /\ BLt(HeadHigh, Three30)
            ELSE CondsHolding(HeadLow, HeadHigh) = 0]_vars

\* after an iteration of the encoder, E2 and E3 both hold of the interval at the head
E2AndE3AtHead ==
    /\ pc = "enc_renorm" /\ cases # <<>> /\ cases[Len(cases)] = "E2"
    /\ CondE2(HeadLow, HeadHigh) /\ CondE3(HeadLow, HeadHigh)


\* encode or decode is running
InProgress == pc \in {"start", "enc_loop", "enc_renorm", "read", "dec_seed", "dec_loop",
                      "dec_renorm"}

\* the symbols encode has not taken yet, or decode has not pushed yet
Remaining ==
    IF pc \in {"start", "enc_loop", "enc_renorm"} THEN Len(input) - position
    ELSE ToInt(dcode.chars) - Len(res)

\* a number that bounds the steps encode or decode has left: 40 for each symbol to
\* come, and within a symbol what is left of 32 iterations or of the 32 bits to seed
StepsLeft ==
    CASE pc \in {"start", "read"} -> Remaining * 40 + 80
      [] pc = "dec_seed" -> Remaining * 40 + 36 + (32 - seeded)
      [] pc \in {"enc_loop", "dec_loop"} -> Remaining * 40 + 35
      [] RenormHead -> Remaining * 40 + 36 + (32 - Len(cases))
      [] OTHER -> 0

\* C14: the renormalization loop of encode and of decode runs at most 32 iterations
\* for a symbol, each iteration doubles high - low + 1, the loop reaches its exit
\* branch, and every step of encode and of decode lowers a natural number, so both
\* terminate, for every input and for every bit buffer and count.
RenormalizationTerminates ==
    /\ [](Len(cases) <= 32)
    /\ [][(RenormHead /\ cases' # cases) =>
             RangeOf(HeadLow', HeadHigh') = BMulS(RangeOf(HeadLow, HeadHigh), 2)]_vars
    /\ [][InProgress => StepsLeft' < StepsLeft /\ StepsLeft' >= 0]_vars
    /\ RenormHead ~> (RenormHead /\ TakesBreak(HeadLow, HeadHigh))

\* the loop is left after 29 iterations or more
LongRenormalization ==
    /\ RenormHead /\ Len(cases) >= 29 /\ TakesBreak(HeadLow, HeadHigh)


\* C15: after n calls of add the counts sum to n and temp[s] is the number of calls
\* with symbol s (a rescale does not reset them), cycle is n mod 64, and a rescale
\* has happened after each 64th call and at no other: the table is the initial one
\* before the 64th call and afterwards the one computed from the counts of the first
\* 64 * floor(n / 64) symbols.
ObserveSchedule ==
    pc = "model" =>
        /\ Observed(prob) = position
        /\ prob.temp = CountsOf(input, position)
        /\ prob.cycle = position % CYCLE
        /\ \E r \in {position \div CYCLE} :
              IF r = 0 THEN prob.pro = ProbNew.pro /\ prob.sum = 256
              ELSE /\ prob.sum = PRECISION
                   /\ prob.pro = ModelAfter(SubSeq(input, 1, r * CYCLE)).pro

\* three rescales done and 63 symbols observed since the last
BeforeFourthRescale ==
    /\ pc = "model" /\ position = 4 * CYCLE - 1 /\ prob.cycle = CYCLE - 1
    /\ prob.sum = PRECISION /\ prob.temp[0] > 0


\* floor(temp[s] * (P - 256) / sum) for every symbol s, in exact arithmetic
ExactScaled(temp) ==
    [s \in Symbols |->
        ToInt(BDiv(BMul(BN(temp[s]), BN(PRECISION - 256)), SumTo(temp, 256)))]

\* a rescale has just happened
Rescaled == pc = "model" /\ position > 0 /\ prob.cycle = 0

\* C16 as stated: the frequencies after a rescale are floor(temp[s] * k) + 1 with
\* k = (P - 256) / sum an exact real number, plus 1 for s < deficit.
RescaleResultExact ==
    Rescaled =>
        \E e \in {ExactScaled(prob.temp)} :
            \E d \in {PRECISION - 256 - SumTo(e, 256)} :
                \A s \in Symbols :
                    prob.pro[s + 1] - prob.pro[s] = e[s] + 1 + (IF s < d THEN 1 ELSE 0)

\* C16: the frequencies after a rescale are floor(temp[s] * k) + 1, plus 1 for
\* s < deficit, with k and the product computed in f64; that floor is within 1 of the
\* exact one, the deficit is between 0 and 256, and after 64 zero bytes symbol 0 has
\* frequency P - 255 and every other symbol frequency 1.
RescaleResult ==
    Rescaled =>
        \E t \in {ScaledCounts(prob.temp)} :
            \E d \in {PRECISION - SumTo(t, 256)} :
                /\ 0 <= d /\ d <= 256
                /\ \A s \in Symbols :
                      prob.pro[s + 1] - prob.pro[s] = t[s] + (IF s < d THEN 1 ELSE 0)
                /\ \E e \in {ExactScaled(prob.temp)} :
                      \A s \in Symbols : e[s] <= t[s] /\ t[s] <= e[s] + 2
                /\ prob.temp[0] = CYCLE /\ Observed(prob) = CYCLE =>
                      /\ prob.pro[1] = PRECISION - 255
                      /\ \A s \in 1 .. 255 : prob.pro[s + 1] - prob.pro[s] = 1

\* a rescale where the f64 floor of a symbol is one less than the exact floor
RescaleBelowExact ==
    /\ Rescaled
    /\ \E s \in Symbols : ScaledCounts(prob.temp)[s] = ExactScaled(prob.temp)[s]


RECURSIVE IterationsUpTo(_)
\* the iterations of the renormalization loop encode ran for its first n symbols
IterationsUpTo(n) ==
    IF n = 0 THEN 0 ELSE Len(enc_trace[n].cases) + IterationsUpTo(n - 1)

\* the bits of c from index a on are b, then n times the opposite of b, and no more
EndsWith(c, a, b, n) ==
    /\ c.write_index = a + 1 + n
    /\ get_bit(c, a) = b
    /\ \A j \in 1 .. n : get_bit(c, a + j) = ~b

\* C17: E1 appends a 0 and then pending_bits times 1, E2 a 1 and then pending_bits
\* times 0, and both set pending_bits to 0; E3 appends nothing and adds 1 to
\* pending_bits; so between symbols the bits appended plus pending_bits are the
\* iterations run so far, and the finished code has iterations - pending_bits + 1
\* bits, the last of them the flush bit 1.
PendingAccounting ==
    /\ [][(pc = "enc_renorm" /\ cases' # cases) =>
            \E c \in {cases'[Len(cases')]} :
               /\ \A j \in 0 .. code.write_index - 1 : get_bit(code', j) = get_bit(code, j)
               /\ c = "E1" => EndsWith(code', code.write_index, FALSE, pending_bits)
                                /\ pending_bits' = 0
               /\ c = "E2" => EndsWith(code', code.write_index, TRUE, pending_bits)
                                /\ pending_bits' = 0
               /\ c = "E3" => code' = code /\ pending_bits' = pending_bits + 1]_vars
    /\ [](pc = "enc_loop" =>
            code.write_index + pending_bits = IterationsUpTo(position))
    /\ [](pc = "encoded" =>
            /\ code.write_index = IterationsUpTo(position) - pending_bits + 1
            /\ get_bit(code, code.write_index - 1)
            /\ Len(code.data) * 8 >= code.write_index)

\* E2 has just written a 1 and two pending bits 0, left by E3 at the last two symbols
TwoPendingWritten ==
    /\ pc = "enc_renorm" /\ cases = <<"E2">> /\ pending_bits = 0 /\ position > 2
    /\ enc_trace[position - 1].cases = <<"E3">>
    /\ enc_trace[position - 2].cases = <<"E3">>
    /\ EndsWith(code, code.write_index - 3, TRUE, 2)


\* bit i of the buffer, counting each byte from its most significant bit
StoredBit(data, i) == (data[i \div 8 + 1] \div 2 ^ (7 - (i % 8))) % 2 = 1

\* C18: after n calls of add_bit, data has ceil(n / 8) bytes, bit i is in byte i / 8
\* at mask 128 >> (i mod 8), the bits of the last byte not yet used are 0, and
\* get_bit(i) is the i-th bit appended; get_bit_and_shift returns the bits in the order
\* they were appended and adds 1 to read_index, and at 8 * data.len() it returns 0 and
\* leaves read_index alone.
BitPacking ==
    pc = "bits" =>
        \E n \in {Len(put)} :
            /\ code.write_index = n
            /\ Len(code.data) = (n + 7) \div 8
            /\ \A k \in 1 .. Len(code.data) : code.data[k] \in 0 .. 255
            /\ \A i \in 0 .. n - 1 :
                  StoredBit(code.data, i) = put[i + 1] /\ get_bit(code, i) = put[i + 1]
            /\ \A i \in n .. 8 * Len(code.data) - 1 : ~StoredBit(code.data, i)
            /\ \A j \in 1 .. Len(got) : got[j] = (j <= n /\ put[j])
            /\ code.read_index =
                  IF Len(got) < 8 * Len(code.data) THEN Len(got) ELSE 8 * Len(code.data)

\* nine bits appended, the ninth a 1, all read back, and two more asked for
NinthBitAndBeyond ==
    /\ pc = "bits" /\ Len(put) = 9 /\ put[9] /\ code.data[2] = 128
    /\ Len(got) = 18 /\ got[9] /\ code.read_index = 16

====
